---- MODULE Spec2Model ----
(***************************************************************************)
(* A model of the jsmn tokenizer of src/jsmn.h (jsmn_init, jsmn_parse and  *)
(* its two scanners), built without JSMN_PARENT_LINKS.  JSMN_STRICT is a   *)
(* build flag: the model carries it as the variable strict, fixed at Init. *)
(*                                                                         *)
(* Bytes are their ASCII codes.  js[i] of the C code is js[i + 1] here.    *)
(* The token pool is held as the sequence of the slots below toknext       *)
(* (tokens[i] of the C code is tokens[i + 1] here); the slots at and above *)
(* toknext hold whatever the caller's memory held.                         *)
(***************************************************************************)
EXTENDS Integers, Sequences, FiniteSets, TLC

VARIABLES
    js,          \* the caller's buffer: the bytes received so far
    strict,      \* TRUE when the build defines JSMN_STRICT
    parser,      \* jsmn_parser: [pos, toknext, toksuper]
    tokens,      \* the token pool below toknext
    dry,         \* the current (or last) call passed tokens == NULL
    num_tokens,  \* the current (or last) call's num_tokens
    len,         \* the current (or last) call's len
    count,       \* jsmn_parse's local count
    pc,          \* "idle": no call is running; "loop": inside jsmn_parse's for loop
    ret,         \* the last call's return value
    calls,       \* the calls made since jsmn_init: <<[dry, num_tokens, len, ret]>>
    stream,      \* the chunks of the document the caller is receiving; <<>>: any bytes
    got,         \* the number of chunks of stream received
    gjv,         \* get_json_value's activation: its position, arguments and locals
    heap,        \* the allocator's view of get_json_value's two blocks
    log          \* the messages passed to FURI_LOG_E

vars == <<js, strict, parser, tokens, dry, num_tokens, len, count, pc, ret, calls,
          stream, got, gjv, heap, log>>

\* get_json_value's variables, which the tokenizer leaves alone
gvars == <<gjv, heap, log>>

----------------------------------------------------------------------------
(* Bounds of the model *)

\* the longest buffer built byte by byte from Alphabet
MaxLen == 3
\* the largest pool a caller passes
MaxCap == 8
\* the number of jsmn_parse calls made on one parser state
MaxCalls == 2

----------------------------------------------------------------------------
(* jsmntype_t and enum jsmnerr *)

JSMN_UNDEFINED == 0
JSMN_OBJECT == 1
JSMN_ARRAY == 2
JSMN_STRING == 4
JSMN_PRIMITIVE == 8

JSMN_ERROR_NOMEM == -1
JSMN_ERROR_INVAL == -2
JSMN_ERROR_PART == -3

\* the values an uninitialised jsmntype_t field can hold, as far as the code
\* and its callers can tell them apart
JunkTypes == {JSMN_UNDEFINED, JSMN_OBJECT, JSMN_ARRAY, JSMN_STRING, JSMN_PRIMITIVE}

----------------------------------------------------------------------------
(* The bytes the code names *)

NUL == 0
TAB == 9
LF == 10
CR == 13
SPACE == 32
QUOTE == 34
COMMA == 44
MINUS == 45
SLASH == 47
COLON == 58
LBRACKET == 91
BACKSLASH == 92
RBRACKET == 93
LBRACE == 123
RBRACE == 125
Ch_b == 98
Ch_f == 102
Ch_n == 110
Ch_r == 114
Ch_t == 116
Ch_u == 117

Digits == 48..57

\* the case labels of jsmn_parse
Openers == {LBRACE, LBRACKET}
Closers == {RBRACE, RBRACKET}
Whitespace == {TAB, CR, LF, SPACE}
\* the case labels that start a primitive under JSMN_STRICT
StrictPrimitiveStart == {MINUS, Ch_t, Ch_f, Ch_n} \cup Digits
\* the bytes the switch of jsmn_parse handles before its primitive / default case
Structural == Openers \cup Closers \cup {QUOTE, COLON, COMMA} \cup Whitespace

\* the case labels of jsmn_parse_primitive that end a primitive
PrimitiveDelimiters(s) ==
    (IF s THEN {} ELSE {COLON}) \cup {TAB, CR, LF, SPACE, COMMA, RBRACKET, RBRACE}

\* a mutant of SimpleEscapes: case 'n' is missing
SimpleEscapes_without_n == {QUOTE, SLASH, BACKSLASH, Ch_b, Ch_f, Ch_r, Ch_t}

\* the escaped symbols jsmn_parse_string allows after a backslash
SimpleEscapes == {QUOTE, SLASH, BACKSLASH, Ch_b, Ch_f, Ch_r, Ch_n, Ch_t}

\* 0-9, A-F, a-f
IsHex(c) == (c >= 48 /\ c <= 57) \/ (c >= 65 /\ c <= 70) \/ (c >= 97 /\ c <= 102)

----------------------------------------------------------------------------
(* parser->pos is an unsigned int.  The model holds it by its representative  *)
(* in [-2^31, 2^31): pos-- at 0 gives -1, which stands for UINT_MAX, and      *)
(* pos++ brings it back to 0; as an unsigned value -1 is above every len.     *)

PosDec(pos) == pos - 1
PosInc(pos) == pos + 1

\* the loop condition shared by the three loops: pos < len && js[pos] != 0
InBuf(buf, n, pos) == pos >= 0 /\ pos < n /\ buf[pos + 1] # NUL

----------------------------------------------------------------------------
(* Token pool *)

\* a mutant of jsmn_alloc_token: the pool is full only when toknext > num_tokens
jsmn_alloc_token_off_by_one(p, toks, n, junk) ==
    IF p.toknext > n
    THEN [ok |-> FALSE, p |-> p, toks |-> toks]
    ELSE [ok |-> TRUE,
          p |-> [p EXCEPT !.toknext = p.toknext + 1],
          toks |-> [i \in 1..(p.toknext + 1) |->
                      IF i = p.toknext + 1
                      THEN [type |-> junk, start |-> -1, end |-> -1, size |-> 0]
                      ELSE toks[i]]]

\* jsmn_alloc_token: NULL (ok = FALSE) when the pool is full, else the slot at
\* toknext with start = end = -1 and size = 0; its type is left as it was.
jsmn_alloc_token(p, toks, n, junk) ==
    IF p.toknext >= n
    THEN [ok |-> FALSE, p |-> p, toks |-> toks]
    ELSE [ok |-> TRUE,
          p |-> [p EXCEPT !.toknext = p.toknext + 1],
          toks |-> [i \in 1..(p.toknext + 1) |->
                      IF i = p.toknext + 1
                      THEN [type |-> junk, start |-> -1, end |-> -1, size |-> 0]
                      ELSE toks[i]]]

\* a mutant of jsmn_fill_token: the end offset is the last byte, not one past it
jsmn_fill_token_end_inclusive(tok, type, start, end) ==
    [type |-> type, start |-> start, end |-> end - 1, size |-> 0]

\* jsmn_fill_token
jsmn_fill_token(tok, type, start, end) ==
    [type |-> type, start |-> start, end |-> end, size |-> 0]

----------------------------------------------------------------------------
(* Primitive scanner *)

\* the for loop of jsmn_parse_primitive from pos: where and how it stops.
\* (PrimitiveLoop_del_ok is a mutant of it: > 127 instead of >= 127.)
\* how = "found": a delimiter at pos; "inval": a byte < 32 or >= 127 at pos;
\* "end": pos >= len or a NUL byte at pos.
RECURSIVE PrimitiveLoop_del_ok(_, _, _, _)
PrimitiveLoop_del_ok(buf, n, s, pos) ==
    IF ~InBuf(buf, n, pos) THEN [how |-> "end", pos |-> pos]
    ELSE IF buf[pos + 1] \in PrimitiveDelimiters(s) THEN [how |-> "found", pos |-> pos]
    ELSE IF buf[pos + 1] < 32 \/ buf[pos + 1] > 127 THEN [how |-> "inval", pos |-> pos]
    ELSE PrimitiveLoop_del_ok(buf, n, s, PosInc(pos))

RECURSIVE PrimitiveLoop(_, _, _, _)
PrimitiveLoop(buf, n, s, pos) ==
    IF ~InBuf(buf, n, pos) THEN [how |-> "end", pos |-> pos]
    ELSE IF buf[pos + 1] \in PrimitiveDelimiters(s) THEN [how |-> "found", pos |-> pos]
    ELSE IF buf[pos + 1] < 32 \/ buf[pos + 1] >= 127 THEN [how |-> "inval", pos |-> pos]
    ELSE PrimitiveLoop(buf, n, s, PosInc(pos))

\* a mutant of jsmn_parse_primitive: under JSMN_STRICT the end of the buffer
\* returns JSMN_ERROR_PART without parser->pos = start
jsmn_parse_primitive_part_no_rewind(p, toks, buf, n, num, isDry, s, junk) ==
    LET start == p.pos
        l == PrimitiveLoop(buf, n, s, p.pos)
    IN  IF l.how = "inval"
        THEN [r |-> JSMN_ERROR_INVAL, p |-> [p EXCEPT !.pos = start], toks |-> toks]
        ELSE IF l.how = "end" /\ s
        THEN [r |-> JSMN_ERROR_PART, p |-> [p EXCEPT !.pos = l.pos], toks |-> toks]
        ELSE IF isDry
        THEN [r |-> 0, p |-> [p EXCEPT !.pos = PosDec(l.pos)], toks |-> toks]
        ELSE LET a == jsmn_alloc_token(p, toks, num, junk) IN
             IF ~a.ok
             THEN [r |-> JSMN_ERROR_NOMEM, p |-> [p EXCEPT !.pos = start], toks |-> toks]
             ELSE [r |-> 0,
                   p |-> [a.p EXCEPT !.pos = PosDec(l.pos)],
                   toks |-> [a.toks EXCEPT ![a.p.toknext] =
                       jsmn_fill_token(a.toks[a.p.toknext], JSMN_PRIMITIVE, start, l.pos)]]

\* a mutant of jsmn_parse_primitive: the JSMN_STRICT block after the loop is
\* missing, the end of the buffer ends a primitive in every build
jsmn_parse_primitive_strict_end_ok(p, toks, buf, n, num, isDry, s, junk) ==
    LET start == p.pos
        l == PrimitiveLoop(buf, n, s, p.pos)
    IN  IF l.how = "inval"
        THEN [r |-> JSMN_ERROR_INVAL, p |-> [p EXCEPT !.pos = start], toks |-> toks]
        ELSE IF isDry
        THEN [r |-> 0, p |-> [p EXCEPT !.pos = PosDec(l.pos)], toks |-> toks]
        ELSE LET a == jsmn_alloc_token(p, toks, num, junk) IN
             IF ~a.ok
             THEN [r |-> JSMN_ERROR_NOMEM, p |-> [p EXCEPT !.pos = start], toks |-> toks]
             ELSE [r |-> 0,
                   p |-> [a.p EXCEPT !.pos = PosDec(l.pos)],
                   toks |-> [a.toks EXCEPT ![a.p.toknext] =
                       jsmn_fill_token(a.toks[a.p.toknext], JSMN_PRIMITIVE, start, l.pos)]]

\* a mutant of jsmn_parse_primitive: the token is allocated before the test
\* tokens == NULL
jsmn_parse_primitive_alloc_first(p, toks, buf, n, num, isDry, s, junk) ==
    LET start == p.pos
        l == PrimitiveLoop(buf, n, s, p.pos)
    IN  IF l.how = "inval"
        THEN [r |-> JSMN_ERROR_INVAL, p |-> [p EXCEPT !.pos = start], toks |-> toks]
        ELSE IF l.how = "end" /\ s
        THEN [r |-> JSMN_ERROR_PART, p |-> [p EXCEPT !.pos = start], toks |-> toks]
        ELSE LET a == jsmn_alloc_token(p, toks, num, junk) IN
             IF ~a.ok
             THEN [r |-> JSMN_ERROR_NOMEM, p |-> [p EXCEPT !.pos = start], toks |-> toks]
             ELSE IF isDry
             THEN [r |-> 0, p |-> [a.p EXCEPT !.pos = PosDec(l.pos)], toks |-> toks]
             ELSE [r |-> 0,
                   p |-> [a.p EXCEPT !.pos = PosDec(l.pos)],
                   toks |-> [a.toks EXCEPT ![a.p.toknext] =
                       jsmn_fill_token(a.toks[a.p.toknext], JSMN_PRIMITIVE, start, l.pos)]]

\* jsmn_parse_primitive: r is its return value
jsmn_parse_primitive(p, toks, buf, n, num, isDry, s, junk) ==
    LET start == p.pos
        l == PrimitiveLoop(buf, n, s, p.pos)
    IN  IF l.how = "inval"
        THEN [r |-> JSMN_ERROR_INVAL, p |-> [p EXCEPT !.pos = start], toks |-> toks]
        ELSE IF l.how = "end" /\ s
        THEN [r |-> JSMN_ERROR_PART, p |-> [p EXCEPT !.pos = start], toks |-> toks]
        ELSE IF isDry
        THEN [r |-> 0, p |-> [p EXCEPT !.pos = PosDec(l.pos)], toks |-> toks]
        ELSE LET a == jsmn_alloc_token(p, toks, num, junk) IN
             IF ~a.ok
             THEN [r |-> JSMN_ERROR_NOMEM, p |-> [p EXCEPT !.pos = start], toks |-> toks]
             ELSE [r |-> 0,
                   p |-> [a.p EXCEPT !.pos = PosDec(l.pos)],
                   toks |-> [a.toks EXCEPT ![a.p.toknext] =
                       jsmn_fill_token(a.toks[a.p.toknext], JSMN_PRIMITIVE, start, l.pos)]]

----------------------------------------------------------------------------
(* String scanner *)

\* a mutant of HexLoop: i <= 4 instead of i < 4
RECURSIVE HexLoop_one_more(_, _, _, _)
HexLoop_one_more(buf, n, i, pos) ==
    IF i <= 4 /\ InBuf(buf, n, pos)
    THEN IF ~IsHex(buf[pos + 1])
         THEN [bad |-> TRUE, pos |-> pos]
         ELSE HexLoop_one_more(buf, n, i + 1, PosInc(pos))
    ELSE [bad |-> FALSE, pos |-> pos]

\* the loop over the hex digits after \u, entered with i digits read and the
\* cursor at pos: bad when a byte that is no hex digit is met
RECURSIVE HexLoop(_, _, _, _)
HexLoop(buf, n, i, pos) ==
    IF i < 4 /\ InBuf(buf, n, pos)
    THEN IF ~IsHex(buf[pos + 1])
         THEN [bad |-> TRUE, pos |-> pos]
         ELSE HexLoop(buf, n, i + 1, PosInc(pos))
    ELSE [bad |-> FALSE, pos |-> pos]

\* the for loop of jsmn_parse_string from pos: where and how it stops.
\* how = "quote": the closing quote at pos; "inval": a bad escape;
\* "part": pos >= len or a NUL byte at pos.
RECURSIVE StringLoop(_, _, _)
StringLoop(buf, n, pos) ==
    IF ~InBuf(buf, n, pos) THEN [how |-> "part", pos |-> pos]
    ELSE IF buf[pos + 1] = QUOTE THEN [how |-> "quote", pos |-> pos]
    ELSE IF buf[pos + 1] = BACKSLASH /\ pos + 1 < n
    THEN LET q == PosInc(pos) IN
         IF buf[q + 1] \in SimpleEscapes THEN StringLoop(buf, n, PosInc(q))
         ELSE IF buf[q + 1] = Ch_u
         THEN LET h == HexLoop(buf, n, 0, PosInc(q)) IN
              IF h.bad THEN [how |-> "inval", pos |-> h.pos]
              ELSE StringLoop(buf, n, PosInc(PosDec(h.pos)))
         ELSE [how |-> "inval", pos |-> q]
    ELSE StringLoop(buf, n, PosInc(pos))

\* a mutant of jsmn_parse_string: a full pool returns JSMN_ERROR_NOMEM without
\* parser->pos = start
jsmn_parse_string_nomem_no_rewind(p, toks, buf, n, num, isDry, junk) ==
    LET start == p.pos
        l == StringLoop(buf, n, PosInc(p.pos))
    IN  IF l.how = "inval"
        THEN [r |-> JSMN_ERROR_INVAL, p |-> [p EXCEPT !.pos = start], toks |-> toks]
        ELSE IF l.how = "part"
        THEN [r |-> JSMN_ERROR_PART, p |-> [p EXCEPT !.pos = start], toks |-> toks]
        ELSE IF isDry
        THEN [r |-> 0, p |-> [p EXCEPT !.pos = l.pos], toks |-> toks]
        ELSE LET a == jsmn_alloc_token(p, toks, num, junk) IN
             IF ~a.ok
             THEN [r |-> JSMN_ERROR_NOMEM, p |-> [p EXCEPT !.pos = l.pos], toks |-> toks]
             ELSE [r |-> 0,
                   p |-> [a.p EXCEPT !.pos = l.pos],
                   toks |-> [a.toks EXCEPT ![a.p.toknext] =
                       jsmn_fill_token(a.toks[a.p.toknext], JSMN_STRING, start + 1, l.pos)]]

\* a mutant of jsmn_parse_string: a bad escape returns JSMN_ERROR_INVAL
\* without parser->pos = start
jsmn_parse_string_inval_no_rewind(p, toks, buf, n, num, isDry, junk) ==
    LET start == p.pos
        l == StringLoop(buf, n, PosInc(p.pos))
    IN  IF l.how = "inval"
        THEN [r |-> JSMN_ERROR_INVAL, p |-> [p EXCEPT !.pos = l.pos], toks |-> toks]
        ELSE IF l.how = "part"
        THEN [r |-> JSMN_ERROR_PART, p |-> [p EXCEPT !.pos = start], toks |-> toks]
        ELSE IF isDry
        THEN [r |-> 0, p |-> [p EXCEPT !.pos = l.pos], toks |-> toks]
        ELSE LET a == jsmn_alloc_token(p, toks, num, junk) IN
             IF ~a.ok
             THEN [r |-> JSMN_ERROR_NOMEM, p |-> [p EXCEPT !.pos = start], toks |-> toks]
             ELSE [r |-> 0,
                   p |-> [a.p EXCEPT !.pos = l.pos],
                   toks |-> [a.toks EXCEPT ![a.p.toknext] =
                       jsmn_fill_token(a.toks[a.p.toknext], JSMN_STRING, start + 1, l.pos)]]

\* jsmn_parse_string: r is its return value
jsmn_parse_string(p, toks, buf, n, num, isDry, junk) ==
    LET start == p.pos
        l == StringLoop(buf, n, PosInc(p.pos))
    IN  IF l.how = "inval"
        THEN [r |-> JSMN_ERROR_INVAL, p |-> [p EXCEPT !.pos = start], toks |-> toks]
        ELSE IF l.how = "part"
        THEN [r |-> JSMN_ERROR_PART, p |-> [p EXCEPT !.pos = start], toks |-> toks]
        ELSE IF isDry
        THEN [r |-> 0, p |-> [p EXCEPT !.pos = l.pos], toks |-> toks]
        ELSE LET a == jsmn_alloc_token(p, toks, num, junk) IN
             IF ~a.ok
             THEN [r |-> JSMN_ERROR_NOMEM, p |-> [p EXCEPT !.pos = start], toks |-> toks]
             ELSE [r |-> 0,
                   p |-> [a.p EXCEPT !.pos = l.pos],
                   toks |-> [a.toks EXCEPT ![a.p.toknext] =
                       jsmn_fill_token(a.toks[a.p.toknext], JSMN_STRING, start + 1, l.pos)]]

----------------------------------------------------------------------------
(* The cases of jsmn_parse's switch.  Each takes the parser p, the pool toks  *)
(* and the local count cnt at a byte c = js[p.pos] and gives them back with   *)
(* r = 0 when the case ends in break, or r < 0 when it returns an error.      *)

\* a token with start != -1 && end == -1
IsOpen(tok) == tok.start # -1 /\ tok.end = -1

\* for (i = from; i >= 0; i--) if (tokens[i] is open) break;  the i it ends with
RECURSIVE ScanOpen(_, _)
ScanOpen(toks, i) ==
    IF i < 0 THEN -1
    ELSE IF IsOpen(toks[i + 1]) THEN i
    ELSE ScanOpen(toks, i - 1)

\* the same scan of the ',' case: an open token of type array or object
RECURSIVE ScanOpenContainer(_, _)
ScanOpenContainer(toks, i) ==
    IF i < 0 THEN -1
    ELSE IF toks[i + 1].type \in {JSMN_ARRAY, JSMN_OBJECT} /\ IsOpen(toks[i + 1]) THEN i
    ELSE ScanOpenContainer(toks, i - 1)

\* a mutant of CaseOpenDry: count++ comes after the tokens == NULL break
CaseOpenDry_uncounted(p, toks, cnt) ==
    [r |-> 0, p |-> p, toks |-> toks, cnt |-> cnt]

\* case '{': case '[' with tokens == NULL: count++ and break
CaseOpenDry(p, toks, cnt) ==
    [r |-> 0, p |-> p, toks |-> toks, cnt |-> cnt + 1]

\* case '{': case '['
CaseOpen(p, toks, cnt, c, num, isDry, s, junk) ==
    IF isDry THEN CaseOpenDry(p, toks, cnt)
    ELSE LET a == jsmn_alloc_token(p, toks, num, junk) IN
         IF ~a.ok
         THEN [r |-> JSMN_ERROR_NOMEM, p |-> p, toks |-> toks, cnt |-> cnt + 1]
         ELSE IF p.toksuper # -1 /\ s /\ a.toks[p.toksuper + 1].type = JSMN_OBJECT
         THEN [r |-> JSMN_ERROR_INVAL, p |-> a.p, toks |-> a.toks, cnt |-> cnt + 1]
         ELSE LET t1 == IF p.toksuper # -1
                        THEN [a.toks EXCEPT ![p.toksuper + 1].size = @ + 1]
                        ELSE a.toks
                  t2 == [t1 EXCEPT ![a.p.toknext].type =
                                      IF c = LBRACE THEN JSMN_OBJECT ELSE JSMN_ARRAY,
                                   ![a.p.toknext].start = p.pos]
              IN [r |-> 0,
                  p |-> [a.p EXCEPT !.toksuper = a.p.toknext - 1],
                  toks |-> t2, cnt |-> cnt + 1]

\* a mutant of CaseClose: the type of the open token is not compared
CaseClose_any_type(p, toks, cnt, c, isDry) ==
    IF isDry THEN [r |-> 0, p |-> p, toks |-> toks, cnt |-> cnt]
    ELSE LET i == ScanOpen(toks, p.toknext - 1)
         IN  IF i = -1
             THEN [r |-> JSMN_ERROR_INVAL, p |-> p, toks |-> toks, cnt |-> cnt]
             ELSE LET t1 == [toks EXCEPT ![i + 1].end = p.pos + 1]
                      k == ScanOpen(t1, i)
                  IN [r |-> 0,
                      p |-> [p EXCEPT !.toksuper = k],
                      toks |-> t1, cnt |-> cnt]

\* case '}': case ']'
CaseClose(p, toks, cnt, c, isDry) ==
    IF isDry THEN [r |-> 0, p |-> p, toks |-> toks, cnt |-> cnt]
    ELSE LET type == IF c = RBRACE THEN JSMN_OBJECT ELSE JSMN_ARRAY
             i == ScanOpen(toks, p.toknext - 1)
         IN  IF i = -1
             THEN [r |-> JSMN_ERROR_INVAL, p |-> p, toks |-> toks, cnt |-> cnt]
             ELSE IF toks[i + 1].type # type
             THEN [r |-> JSMN_ERROR_INVAL, p |-> p, toks |-> toks, cnt |-> cnt]
             ELSE LET t1 == [toks EXCEPT ![i + 1].end = p.pos + 1]
                      k == ScanOpen(t1, i)
                  IN [r |-> 0,
                      p |-> [p EXCEPT !.toksuper = k],
                      toks |-> t1, cnt |-> cnt]

\* a mutant of BumpSuper: the size++ is missing
BumpSuper_missing(p, toks, isDry) == toks

\* toksuper's size++ after a string or a primitive
BumpSuper(p, toks, isDry) ==
    IF p.toksuper # -1 /\ ~isDry
    THEN [toks EXCEPT ![p.toksuper + 1].size = @ + 1]
    ELSE toks

\* case '\"'
CaseString(p, toks, cnt, buf, n, num, isDry, junk) ==
    LET x == jsmn_parse_string(p, toks, buf, n, num, isDry, junk) IN
    IF x.r < 0 THEN [r |-> x.r, p |-> x.p, toks |-> x.toks, cnt |-> cnt]
    ELSE [r |-> 0, p |-> x.p, toks |-> BumpSuper(x.p, x.toks, isDry), cnt |-> cnt + 1]

\* a mutant of CaseColon: toksuper = toknext
CaseColon_no_minus_one(p, toks, cnt) ==
    [r |-> 0, p |-> [p EXCEPT !.toksuper = p.toknext], toks |-> toks, cnt |-> cnt]

\* case ':'   (toknext - 1 is converted to int: -1 when toknext is 0)
CaseColon(p, toks, cnt) ==
    [r |-> 0, p |-> [p EXCEPT !.toksuper = p.toknext - 1], toks |-> toks, cnt |-> cnt]

\* case ','
CaseComma(p, toks, cnt, isDry) ==
    IF ~isDry /\ p.toksuper # -1
       /\ toks[p.toksuper + 1].type # JSMN_ARRAY
       /\ toks[p.toksuper + 1].type # JSMN_OBJECT
    THEN LET i == ScanOpenContainer(toks, p.toknext - 1) IN
         [r |-> 0, p |-> IF i # -1 THEN [p EXCEPT !.toksuper = i] ELSE p,
          toks |-> toks, cnt |-> cnt]
    ELSE [r |-> 0, p |-> p, toks |-> toks, cnt |-> cnt]

\* a mutant of StrictKeyCheckFails: t->type == JSMN_OBJECT is not tested
StrictKeyCheckFails_string_only(p, toks, isDry) ==
    /\ ~isDry
    /\ p.toksuper # -1
    /\ toks[p.toksuper + 1].type = JSMN_STRING /\ toks[p.toksuper + 1].size # 0

\* under JSMN_STRICT: a primitive must not be a key of the object
StrictKeyCheckFails(p, toks, isDry) ==
    /\ ~isDry
    /\ p.toksuper # -1
    /\ \/ toks[p.toksuper + 1].type = JSMN_OBJECT
       \/ toks[p.toksuper + 1].type = JSMN_STRING /\ toks[p.toksuper + 1].size # 0

\* the primitive case: under JSMN_STRICT the labels '-', '0'..'9', 't', 'f', 'n',
\* otherwise default
CasePrimitive(p, toks, cnt, buf, n, num, isDry, s, junk) ==
    IF s /\ StrictKeyCheckFails(p, toks, isDry)
    THEN [r |-> JSMN_ERROR_INVAL, p |-> p, toks |-> toks, cnt |-> cnt]
    ELSE LET x == jsmn_parse_primitive(p, toks, buf, n, num, isDry, s, junk) IN
         IF x.r < 0 THEN [r |-> x.r, p |-> x.p, toks |-> x.toks, cnt |-> cnt]
         ELSE [r |-> 0, p |-> x.p, toks |-> BumpSuper(x.p, x.toks, isDry), cnt |-> cnt + 1]

\* default under JSMN_STRICT: unexpected char
CaseUnexpected(p, toks, cnt) ==
    [r |-> JSMN_ERROR_INVAL, p |-> p, toks |-> toks, cnt |-> cnt]

\* which bytes reach the primitive case
IsPrimitiveStart(c, s) ==
    IF s THEN c \in StrictPrimitiveStart ELSE c \notin Structural

\* the switch (c) of jsmn_parse
Switch(p, toks, cnt, buf, n, num, isDry, s, junk) ==
    LET c == buf[p.pos + 1] IN
    IF c \in Openers THEN CaseOpen(p, toks, cnt, c, num, isDry, s, junk)
    ELSE IF c \in Closers THEN CaseClose(p, toks, cnt, c, isDry)
    ELSE IF c = QUOTE THEN CaseString(p, toks, cnt, buf, n, num, isDry, junk)
    ELSE IF c \in Whitespace THEN [r |-> 0, p |-> p, toks |-> toks, cnt |-> cnt]
    ELSE IF c = COLON THEN CaseColon(p, toks, cnt)
    ELSE IF c = COMMA THEN CaseComma(p, toks, cnt, isDry)
    ELSE IF IsPrimitiveStart(c, s)
    THEN CasePrimitive(p, toks, cnt, buf, n, num, isDry, s, junk)
    ELSE CaseUnexpected(p, toks, cnt)

\* js[k] as the code reads it; past the caller's bytes the byte is not the
\* program's to know, here NUL
Peek(buf, k) == IF k >= 0 /\ k < Len(buf) THEN buf[k + 1] ELSE NUL

\* What the scanners do to the buffer and the cursor, as a set of events:
\* <<"read", k>> for an evaluation of js[k], <<"pos", k>> for a value k that
\* parser->pos takes.
\* the hex loop entered with i digits read and the cursor at pos
RECURSIVE HexTrace(_, _, _, _)
HexTrace(buf, n, i, pos) ==
    IF i < 4 /\ pos < n
    THEN {<<"read", pos>>}
         \cup (IF Peek(buf, pos) = NUL \/ ~IsHex(Peek(buf, pos)) THEN {}
               ELSE {<<"pos", pos + 1>>} \cup HexTrace(buf, n, i + 1, pos + 1))
    ELSE {}

\* a mutant of StringTrace: the look-ahead after a backslash without the test
\* parser->pos + 1 < len
RECURSIVE StringTrace_unguarded(_, _, _)
StringTrace_unguarded(buf, n, pos) ==
    IF pos >= n THEN {}
    ELSE {<<"read", pos>>}
         \cup (LET c == Peek(buf, pos) IN
               IF c \in {NUL, QUOTE} THEN {}
               ELSE IF c = BACKSLASH
               THEN {<<"pos", pos + 1>>, <<"read", pos + 1>>}
                    \cup (LET e == Peek(buf, pos + 1) IN
                          IF e \in SimpleEscapes
                          THEN {<<"pos", pos + 2>>} \cup StringTrace_unguarded(buf, n, pos + 2)
                          ELSE IF e = Ch_u
                          THEN LET h == HexLoop(buf, n, 0, pos + 2) IN
                               {<<"pos", pos + 2>>} \cup HexTrace(buf, n, 0, pos + 2)
                               \cup (IF h.bad THEN {}
                                     ELSE {<<"pos", h.pos - 1>>, <<"pos", h.pos>>}
                                          \cup StringTrace_unguarded(buf, n, h.pos))
                          ELSE {})
               ELSE {<<"pos", pos + 1>>} \cup StringTrace_unguarded(buf, n, pos + 1))

\* the for loop of jsmn_parse_string from its test at pos
RECURSIVE StringTrace(_, _, _)
StringTrace(buf, n, pos) ==
    IF pos >= n THEN {}
    ELSE {<<"read", pos>>}
         \cup (LET c == Peek(buf, pos) IN
               IF c \in {NUL, QUOTE} THEN {}
               ELSE IF c = BACKSLASH /\ pos + 1 < n
               THEN {<<"pos", pos + 1>>, <<"read", pos + 1>>}
                    \cup (LET e == Peek(buf, pos + 1) IN
                          IF e \in SimpleEscapes
                          THEN {<<"pos", pos + 2>>} \cup StringTrace(buf, n, pos + 2)
                          ELSE IF e = Ch_u
                          THEN LET h == HexLoop(buf, n, 0, pos + 2) IN
                               {<<"pos", pos + 2>>} \cup HexTrace(buf, n, 0, pos + 2)
                               \cup (IF h.bad THEN {}
                                     ELSE {<<"pos", h.pos - 1>>, <<"pos", h.pos>>}
                                          \cup StringTrace(buf, n, h.pos))
                          ELSE {})
               ELSE {<<"pos", pos + 1>>} \cup StringTrace(buf, n, pos + 1))

\* the for loop of jsmn_parse_primitive from its test at pos
RECURSIVE PrimitiveTrace(_, _, _, _)
PrimitiveTrace(buf, n, s, pos) ==
    IF pos >= n THEN {}
    ELSE {<<"read", pos>>}
         \cup (LET c == Peek(buf, pos) IN
               IF c = NUL \/ c \in PrimitiveDelimiters(s) \/ c < 32 \/ c >= 127 THEN {}
               ELSE {<<"pos", pos + 1>>} \cup PrimitiveTrace(buf, n, s, pos + 1))

\* one turn of jsmn_parse's loop at a byte: its test and c = js[parser->pos],
\* then the scanner its case calls, with the parser->pos-- of a primitive
\* that is found
CaseTrace(p, toks, buf, n, num, isDry, s) ==
    LET c == Peek(buf, p.pos) IN
    {<<"pos", p.pos>>, <<"read", p.pos>>}
    \cup (IF c = QUOTE
          THEN {<<"pos", p.pos + 1>>} \cup StringTrace(buf, n, p.pos + 1)
          ELSE IF c \notin Structural /\ IsPrimitiveStart(c, s)
                  /\ ~(s /\ StrictKeyCheckFails(p, toks, isDry))
          THEN LET l == PrimitiveLoop(buf, n, s, p.pos) IN
               PrimitiveTrace(buf, n, s, p.pos)
               \cup (IF l.how = "inval" \/ (l.how = "end" /\ s) THEN {}
                     ELSE IF isDry \/ p.toknext < num THEN {<<"pos", l.pos - 1>>}
                     ELSE {})
          ELSE {})

\* the indices a backward scan for (i = from; i >= 0; i--) visits when it
\* breaks at index found (-1: it runs to the end)
ScanVisits(from, found) == (IF found = -1 THEN 0 ELSE found)..from

\* the index jsmn_alloc_token hands out in the case at byte c, if it is called
\* and the pool has room (tokens != NULL)
SlotAllocated(p, toks, c, buf, n, num, s) ==
    IF p.toknext >= num THEN {}
    ELSE IF c \in Openers THEN {p.toknext}
    ELSE IF c = QUOTE
    THEN IF StringLoop(buf, n, PosInc(p.pos)).how = "quote" THEN {p.toknext} ELSE {}
    ELSE IF c \notin Structural /\ IsPrimitiveStart(c, s)
            /\ ~(s /\ StrictKeyCheckFails(p, toks, FALSE))
    THEN LET l == PrimitiveLoop(buf, n, s, p.pos) IN
         IF l.how = "inval" \/ (l.how = "end" /\ s) THEN {} ELSE {p.toknext}
    ELSE {}

\* the indices of the slots other than the allocated one that the case at
\* byte c reads or writes (tokens != NULL): tokens[parser->toksuper] and the
\* backward scans
SlotsUsed(p, toks, c, buf, n, num, s) ==
    LET super == IF p.toksuper # -1 THEN {p.toksuper} ELSE {}
        alloc == SlotAllocated(p, toks, c, buf, n, num, s) # {}
    IN  IF c \in Openers \/ c = QUOTE THEN (IF alloc THEN super ELSE {})
        ELSE IF c \in Closers
        THEN LET type == IF c = RBRACE THEN JSMN_OBJECT ELSE JSMN_ARRAY
                 i == ScanOpen(toks, p.toknext - 1)
             IN  ScanVisits(p.toknext - 1, i)
                 \cup (IF i # -1 /\ toks[i + 1].type = type
                       THEN ScanVisits(i, ScanOpen([toks EXCEPT ![i + 1].end = p.pos + 1], i))
                       ELSE {})
        ELSE IF c = COMMA
        THEN super \cup
             (IF p.toksuper # -1 /\ toks[p.toksuper + 1].type \notin {JSMN_ARRAY, JSMN_OBJECT}
              THEN ScanVisits(p.toknext - 1, ScanOpenContainer(toks, p.toknext - 1))
              ELSE {})
        ELSE IF c \notin Structural /\ IsPrimitiveStart(c, s)
        THEN (IF s \/ alloc THEN super ELSE {})
        ELSE {}

\* the indices the scan after the loop visits (tokens != NULL)
SlotsScannedAtEnd(p, toks) ==
    ScanVisits(p.toknext - 1, ScanOpen(toks, p.toknext - 1))

\* a mutant of EndOfScan: only the last token is tested
EndOfScan_last_only(p, toks, cnt, isDry) ==
    IF ~isDry /\ p.toknext >= 1 /\ IsOpen(toks[p.toknext]) THEN JSMN_ERROR_PART ELSE cnt

\* after the loop: JSMN_ERROR_PART when a token is still open, else count
EndOfScan(p, toks, cnt, isDry) ==
    IF ~isDry /\ ScanOpen(toks, p.toknext - 1) # -1 THEN JSMN_ERROR_PART ELSE cnt

\* jsmn_parse's loop and its end, run from (p, toks, cnt) to the return
RECURSIVE ParseLoop(_, _, _, _, _, _, _, _, _)
ParseLoop(p, toks, cnt, buf, n, num, isDry, s, junk) ==
    IF ~InBuf(buf, n, p.pos)
    THEN [ret |-> EndOfScan(p, toks, cnt, isDry), p |-> p, toks |-> toks]
    ELSE LET x == Switch(p, toks, cnt, buf, n, num, isDry, s, junk) IN
         IF x.r < 0 THEN [ret |-> x.r, p |-> x.p, toks |-> x.toks]
         ELSE ParseLoop([x.p EXCEPT !.pos = PosInc(x.p.pos)], x.toks, x.cnt,
                        buf, n, num, isDry, s, junk)

\* jsmn_parse as one call on parser p and pool toks
jsmn_parse(p, toks, buf, n, num, isDry, s, junk) ==
    ParseLoop(p, toks, p.toknext, buf, n, num, isDry, s, junk)

\* jsmn_init
jsmn_init == [pos |-> 0, toknext |-> 0, toksuper |-> -1]

----------------------------------------------------------------------------
(* The inputs *)

\* the bytes a free buffer is built from: { } [ ] " : , a digit and a
\* backslash
Ch_1 == 49
Alphabet == {LBRACE, RBRACE, LBRACKET, RBRACKET, QUOTE, COLON, COMMA, Ch_1,
             BACKSLASH}

\* {"a":[1,2,{"b":true}]}
DocNested == <<123, 34, 97, 34, 58, 91, 49, 44, 50, 44, 123, 34, 98, 34, 58,
               116, 114, 117, 101, 125, 93, 125>>
\* quote, backslash-u 0041, backslash-n, backslash, quote
DocEscapes == <<34, 92, 117, 48, 48, 52, 49, 92, 110, 92, 34>>
\* quote, backslash-u 0041, backslash-n, quote
DocEscapesClosed == <<34, 92, 117, 48, 48, 52, 49, 92, 110, 34>>
\* "\q"
DocBadEscape == <<34, 92, 113, 34>>
\* "abc
DocUnclosed == <<34, 97, 98, 99>>
\* {foo:1}
DocBareKey == <<123, 102, 111, 111, 58, 49, 125>>

\*  [{"a":null} , "x\"y",<TAB>-1.5e3]<LF>   with a leading space
DocMixed == <<32, 91, 123, 34, 97, 34, 58, 110, 117, 108, 108, 125, 32, 44, 32, 34,
              120, 92, 34, 121, 34, 44, 9, 45, 49, 46, 53, 101, 51, 93, 10>>
\* {"a":"x","b":{"c":[]}}
DocPairs == <<123, 34, 97, 34, 58, 34, 120, 34, 44, 34, 98, 34, 58, 123, 34, 99, 34,
              58, 91, 93, 125, 125>>
\* [1<NUL>]  and  [1<0x01>]
DocNul == <<91, 49, 0, 93>>
DocCtrl == <<91, 49, 1, 93>>
\* 42
Doc42 == <<52, 50>>
\* 1 then DEL (0x7f)
DocDel == <<49, 127>>
\* 1 then the byte 0xc8
DocHigh == <<49, 200>>
\* quote, backslash-u 0g41, quote
DocBadHex == <<34, 92, 117, 48, 103, 52, 49, 34>>
\* {"a":[1,   then   2]}
PartA1 == <<123, 34, 97, 34, 58, 91, 49, 44>>
PartA2 == <<50, 93, 125>>
\* ["\u00   then   41"]
PartB1 == <<91, 34, 92, 117, 48, 48>>
PartB2 == <<52, 49, 34, 93>>
\* [tr   then   ue]
PartC1 == <<91, 116, 114>>
PartC2 == <<117, 101, 93>>

\* a stream is the sequence of chunks in which a document reaches the caller
Streams == {<<DocNested>>, <<DocEscapes>>, <<DocEscapesClosed>>, <<DocBadEscape>>,
            <<DocUnclosed>>, <<DocBareKey>>, <<DocMixed>>, <<DocPairs>>,
            <<DocNul>>, <<DocCtrl>>, <<Doc42>>, <<DocBadHex>>, <<DocDel>>, <<DocHigh>>,
            <<PartA1, PartA2>>, <<PartB1, PartB2>>, <<PartC1, PartC2>>}

----------------------------------------------------------------------------
(* get_json_value before it is called *)

\* no call of get_json_value is running.  line is the source line of the
\* return statement the call left by (0: none yet); null tells that the
\* pointer returned is NULL, value holds the bytes of the block returned
GjvIdle ==
    [pc |-> "idle", key |-> <<>>, i |-> 0, length |-> 0, vstart |-> 0,
     value |-> <<>>, null |-> TRUE, line |-> 0]

\* neither block is allocated.  tokens, value: "none", "live" or "freed";
\* frees counts free(tokens); misuse: tokens was read after free(tokens)
HeapEmpty == [tokens |-> "none", frees |-> 0, value |-> "none", misuse |-> FALSE]

----------------------------------------------------------------------------
(* The state machine *)

Init ==
    /\ js = <<>>
    /\ got = 0
    /\ strict \in BOOLEAN
    /\ stream \in Streams \cup {<<>>}
    /\ parser = jsmn_init
    /\ tokens = <<>>
    /\ dry = FALSE
    /\ num_tokens = 0
    /\ len = 0
    /\ count = 0
    /\ pc = "idle"
    /\ ret = 0
    /\ calls = <<>>
    /\ gjv = GjvIdle
    /\ heap = HeapEmpty
    /\ log = <<>>

\* the caller reads more bytes before it parses, or after jsmn_parse has asked
\* for more (JSMN_ERROR_PART)
MayRecv == pc = "idle" /\ (calls = <<>> \/ ret = JSMN_ERROR_PART)

\* the caller receives one more byte into its buffer
RecvByte(b) ==
    /\ MayRecv
    /\ stream = <<>>
    /\ Len(js) < MaxLen
    /\ js' = Append(js, b)
    /\ UNCHANGED <<got, strict, parser, tokens, dry, num_tokens, len, count, pc, ret,
                   calls, stream, gvars>>

\* the caller receives the next chunk of the document
RecvChunk ==
    /\ MayRecv
    /\ got < Len(stream)
    /\ js' = js \o stream[got + 1]
    /\ got' = got + 1
    /\ UNCHANGED <<strict, parser, tokens, dry, num_tokens, len, count, pc, ret,
                   calls, stream, gvars>>

\* the caller runs jsmn_init on the parser and starts over with its pool
JsmnInit ==
    /\ pc = "idle"
    /\ calls # <<>>
    /\ parser' = jsmn_init
    /\ tokens' = <<>>
    /\ calls' = <<>>
    /\ dry' = FALSE /\ num_tokens' = 0 /\ len' = 0 /\ ret' = 0
    /\ UNCHANGED <<js, got, strict, count, pc, stream, gvars>>

\* the pool sizes a caller passes: no buffer of n bytes holds more than n
\* tokens.  A dry run's num_tokens is any.
CapChoices(d) ==
    IF d THEN {0, MaxCap}
    ELSE {c \in 0..MaxCap : c <= Len(js) + 1}

\* what the caller does with a parser state: a first call after jsmn_init;
\* after JSMN_ERROR_NOMEM the same call with a larger pool that keeps the
\* tokens written; after JSMN_ERROR_PART the same call with the same pool once
\* more bytes have arrived.  After JSMN_ERROR_INVAL or a count it makes no
\* further call on that state.
MayCall(d, cap) ==
    \/ calls = <<>> /\ cap \in CapChoices(d)
    \/ calls # <<>> /\ ret = JSMN_ERROR_NOMEM /\ d = dry
          /\ cap \in CapChoices(d) /\ cap > num_tokens
    \/ calls # <<>> /\ ret = JSMN_ERROR_PART /\ d = dry
          /\ Len(js) > len /\ cap = num_tokens

\* the caller calls jsmn_parse(&parser, js, strlen-or-received, tokens, cap);
\* d: tokens == NULL.  int count = parser->toknext.
Call(d, cap) ==
    /\ pc = "idle"
    /\ Len(calls) < MaxCalls
    /\ MayCall(d, cap)
    /\ dry' = d
    /\ num_tokens' = cap
    /\ len' = Len(js)
    /\ count' = parser.toknext
    /\ pc' = "loop"
    /\ UNCHANGED <<js, got, strict, parser, tokens, ret, calls, stream, gvars>>

\* return r from jsmn_parse
Return(r) ==
    /\ pc' = "idle"
    /\ ret' = r
    /\ count' = 0
    /\ calls' = Append(calls, [dry |-> dry, num_tokens |-> num_tokens,
                               len |-> len, ret |-> r])

\* the end of one case x of the switch: return x.r, or break and pos++
Apply(x) ==
    /\ tokens' = x.toks
    /\ IF x.r < 0
       THEN parser' = x.p /\ Return(x.r)
       ELSE /\ parser' = [x.p EXCEPT !.pos = PosInc(x.p.pos)]
            /\ count' = x.cnt
            /\ UNCHANGED <<pc, ret, calls>>
    /\ UNCHANGED <<js, got, strict, dry, num_tokens, len, stream, gvars>>

\* the loop is at a byte
AtByte == pc = "loop" /\ InBuf(js, len, parser.pos)
Cur == js[parser.pos + 1]

StepOpen ==
    /\ AtByte /\ Cur \in Openers
    /\ \E junk \in JunkTypes :
         Apply(CaseOpen(parser, tokens, count, Cur, num_tokens, dry, strict, junk))

StepClose ==
    /\ AtByte /\ Cur \in Closers
    /\ Apply(CaseClose(parser, tokens, count, Cur, dry))

StepString ==
    /\ AtByte /\ Cur = QUOTE
    /\ \E junk \in JunkTypes :
         Apply(CaseString(parser, tokens, count, js, len, num_tokens, dry, junk))

StepWhitespace ==
    /\ AtByte /\ Cur \in Whitespace
    /\ Apply([r |-> 0, p |-> parser, toks |-> tokens, cnt |-> count])

StepColon ==
    /\ AtByte /\ Cur = COLON
    /\ Apply(CaseColon(parser, tokens, count))

StepComma ==
    /\ AtByte /\ Cur = COMMA
    /\ Apply(CaseComma(parser, tokens, count, dry))

StepPrimitive ==
    /\ AtByte /\ Cur \notin Structural /\ IsPrimitiveStart(Cur, strict)
    /\ \E junk \in JunkTypes :
         Apply(CasePrimitive(parser, tokens, count, js, len, num_tokens, dry, strict, junk))

StepUnexpected ==
    /\ AtByte /\ Cur \notin Structural /\ ~IsPrimitiveStart(Cur, strict)
    /\ Apply(CaseUnexpected(parser, tokens, count))

\* the loop has ended: the check for an open token and return count
ParseEnd ==
    /\ pc = "loop" /\ ~InBuf(js, len, parser.pos)
    /\ Return(EndOfScan(parser, tokens, count, dry))
    /\ UNCHANGED <<js, got, strict, parser, tokens, dry, num_tokens, len, stream, gvars>>

Next ==
    \/ \E b \in Alphabet : RecvByte(b)
    \/ RecvChunk
    \/ JsmnInit
    \/ \E d \in BOOLEAN, cap \in 0..MaxCap : Call(d, cap)
    \/ StepOpen
    \/ StepClose
    \/ StepString
    \/ StepWhitespace
    \/ StepColon
    \/ StepComma
    \/ StepPrimitive
    \/ StepUnexpected
    \/ ParseEnd

Spec == Init /\ [][Next]_vars

----------------------------------------------------------------------------
(* get_json_value(key, json_data, max_tokens) and jsoneq.  json_data is js,  *)
(* a C string: its bytes are followed by a terminator.                       *)

\* strlen: the offset of the first NUL byte, or of the terminator
RECURSIVE StrlenFrom(_, _)
StrlenFrom(buf, k) ==
    IF k < Len(buf) /\ buf[k + 1] # NUL THEN StrlenFrom(buf, k + 1) ELSE k
strlen(buf) == StrlenFrom(buf, 0)

\* jsoneq: 0 when tok is a string of strlen(s) bytes that strncmp finds equal
\* to s, else -1
jsoneq(json, tok, s) ==
    IF /\ tok.type = JSMN_STRING
       /\ Len(s) = tok.end - tok.start
       /\ SubSeq(json, tok.start + 1, tok.end) = s
    THEN 0 ELSE -1

\* strncpy(value, json_data + start, n), then value[n] = 0: the bytes from
\* start, n at most, up to the terminator
Strncpy(buf, start, n) ==
    SubSeq(buf, start + 1, IF start + n < strlen(buf) THEN start + n ELSE strlen(buf))

\* free(tokens)
FreeTokens(h) == [h EXCEPT !.tokens = "freed", !.frees = @ + 1]
\* a read of tokens[...]
ReadTokens(h) == [h EXCEPT !.misuse = @ \/ h.tokens # "live"]

\* return v (the NULL pointer when isNull) at the given source line
GjvReturn(g, v, isNull, line) ==
    [g EXCEPT !.pc = "done", !.value = v, !.null = isNull, !.line = line]

\* what a slot of the malloc'ed array that jsmn_parse never wrote can hold
JunkToks(buf) ==
    {[type |-> JSMN_UNDEFINED, start |-> a, end |-> b, size |-> 0] :
        a \in {-1, 0, 1}, b \in {-1, 0, Len(buf)}}

\* the return paths: each gives get_json_value's activation g, the heap h and
\* the log l as the path leaves them

\* json_data == NULL
JsonNull(g, h, l) ==
    [g |-> GjvReturn(g, <<>>, TRUE, 614), h |-> h,
     l |-> l \o <<"JSON data is NULL", "Failed to find the key in the JSON.">>]

\* tokens == NULL after malloc
TokensAllocFailed(g, h, l) ==
    [g |-> GjvReturn(g, <<>>, TRUE, 564), h |-> h,
     l |-> Append(l, "Failed to allocate memory for JSON tokens.")]

\* ret < 0
ParseFailed(g, h, l) ==
    [g |-> GjvReturn(g, <<>>, TRUE, 573), h |-> FreeTokens(h),
     l |-> Append(l, "Failed to parse JSON: %d")]

\* ret < 1 || tokens[0].type != JSMN_OBJECT
RootNotObject(g, h, l) ==
    [g |-> GjvReturn(g, <<>>, TRUE, 581), h |-> FreeTokens(h),
     l |-> Append(l, "Root element is not an object.")]

\* a mutant of ValueAllocFailed: break instead of return NULL, the path goes
\* on to the common tail
ValueAllocFailed_common_tail(g, h, l) ==
    [g |-> GjvReturn(g, <<>>, TRUE, 614), h |-> FreeTokens(h),
     l |-> l \o <<"Failed to allocate memory for value.",
                  "Failed to find the key in the JSON.">>]

\* a mutant of ValueAllocFailed: the free(tokens) of this path is missing
ValueAllocFailed_no_free(g, h, l) ==
    [g |-> GjvReturn(g, <<>>, TRUE, 596), h |-> h,
     l |-> Append(l, "Failed to allocate memory for value.")]

\* value == NULL after malloc(length + 1)
ValueAllocFailed(g, h, l) ==
    [g |-> GjvReturn(g, <<>>, TRUE, 596), h |-> FreeTokens(h),
     l |-> Append(l, "Failed to allocate memory for value.")]

\* strncpy from tokens[i + 1].start, the terminator, free(tokens), return value
ValueCopied(g, h, l, buf) ==
    [g |-> GjvReturn(g, Strncpy(buf, g.vstart, g.length), FALSE, 602),
     h |-> FreeTokens(ReadTokens(h)), l |-> l]

\* the loop ended without a match: free(tokens) and the common tail
KeyNotFound(g, h, l) ==
    [g |-> GjvReturn(g, <<>>, TRUE, 614), h |-> FreeTokens(h),
     l |-> Append(l, "Failed to find the key in the JSON.")]

\* the end of a path
Leave(x) == gjv' = x.g /\ heap' = x.h /\ log' = x.l

\* the JSON texts and the keys get_json_value is called with
\* {"a":{"b":1},"b":2}
GetNested == <<123, 34, 97, 34, 58, 123, 34, 98, 34, 58, 49, 125, 44, 34, 98, 34,
               58, 50, 125>>
\* {"x":"b","b":"2"}
GetFlat == <<123, 34, 120, 34, 58, 34, 98, 34, 44, 34, 98, 34, 58, 34, 50, 34, 125>>
\* {"a":"b"}
GetLast == <<123, 34, 97, 34, 58, 34, 98, 34, 125>>
\* {"bb":1,"b":""}
GetPrefix == <<123, 34, 98, 98, 34, 58, 49, 44, 34, 98, 34, 58, 34, 34, 125>>
\* ["b",1]
GetArray == <<91, 34, 98, 34, 44, 49, 93>>
\* {"b":
GetCut == <<123, 34, 98, 34, 58>>
GetDocs == {GetNested, GetFlat, GetLast, GetPrefix, GetArray, GetCut, <<>>}
\* b, a, q
GetKeys == {<<98>>, <<97>>, <<113>>}

InitGet ==
    /\ js \in GetDocs
    /\ got = 0
    /\ strict \in BOOLEAN
    /\ stream = <<>>
    /\ parser = jsmn_init
    /\ tokens = <<>>
    /\ dry = FALSE
    /\ num_tokens = 0
    /\ len = 0
    /\ count = 0
    /\ pc = "idle"
    /\ ret = 0
    /\ calls = <<>>
    /\ gjv = GjvIdle
    /\ heap = HeapEmpty
    /\ log = <<>>

\* what get_json_value never touches
GjvFrame == UNCHANGED <<js, strict, dry, count, pc, calls, stream, got>>

\* the call, jsmn_init and malloc(sizeof(jsmntok_t) * max_tokens); isNull:
\* json_data == NULL; ok: malloc gave a block
GjvEnter(k, m, isNull, ok) ==
    /\ gjv.pc = "idle"
    /\ IF isNull
       THEN /\ Leave(JsonNull([gjv EXCEPT !.key = k], heap, log))
            /\ UNCHANGED <<parser, num_tokens>>
       ELSE /\ parser' = jsmn_init
            /\ num_tokens' = m
            /\ IF ~ok
               THEN Leave(TokensAllocFailed([gjv EXCEPT !.key = k], heap, log))
               ELSE /\ gjv' = [gjv EXCEPT !.key = k, !.pc = "parse"]
                    /\ heap' = [heap EXCEPT !.tokens = "live"]
                    /\ UNCHANGED log
    /\ UNCHANGED <<tokens, len, ret>>
    /\ GjvFrame

\* ret = jsmn_parse(&parser, json_data, strlen(json_data), tokens, max_tokens)
\* and if (ret < 0)
GjvParse ==
    /\ gjv.pc = "parse"
    /\ \E junk \in JunkTypes :
         LET x == jsmn_parse(parser, tokens, js, strlen(js), num_tokens, FALSE,
                             strict, junk)
         IN  /\ parser' = x.p
             /\ tokens' = x.toks
             /\ ret' = x.ret
             /\ len' = strlen(js)
             /\ IF x.ret < 0
                THEN Leave(ParseFailed(gjv, heap, log))
                ELSE /\ gjv' = [gjv EXCEPT !.pc = "root"]
                     /\ UNCHANGED <<heap, log>>
    /\ UNCHANGED num_tokens
    /\ GjvFrame

\* if (ret < 1 || tokens[0].type != JSMN_OBJECT), else int i = 1
GjvRoot ==
    /\ gjv.pc = "root"
    /\ IF ret < 1
       THEN Leave(RootNotObject(gjv, heap, log))
       ELSE IF tokens[1].type # JSMN_OBJECT
       THEN Leave(RootNotObject(gjv, ReadTokens(heap), log))
       ELSE /\ gjv' = [gjv EXCEPT !.pc = "scan", !.i = 1]
            /\ heap' = ReadTokens(heap)
            /\ UNCHANGED log
    /\ UNCHANGED <<parser, tokens, num_tokens, len, ret>>
    /\ GjvFrame

\* one turn of the loop on a token that is not the key: i++
GjvScan ==
    /\ gjv.pc = "scan"
    /\ gjv.i < ret
    /\ jsoneq(js, tokens[gjv.i + 1], gjv.key) # 0
    /\ gjv' = [gjv EXCEPT !.i = @ + 1]
    /\ heap' = ReadTokens(heap)
    /\ UNCHANGED <<parser, tokens, num_tokens, len, ret, log>>
    /\ GjvFrame

\* the turn of the loop on a token jsoneq finds equal to the key:
\* length = tokens[i + 1].end - tokens[i + 1].start and malloc(length + 1).
\* When i + 1 is not below ret the slot was never written (and when it is not
\* below max_tokens it lies past the block): t is any token, or the read
\* faults.  A negative length + 1 is a size no malloc grants.
GjvMatch(t, ok, fault) ==
    /\ gjv.pc = "scan"
    /\ gjv.i < ret
    /\ jsoneq(js, tokens[gjv.i + 1], gjv.key) = 0
    /\ IF gjv.i + 1 < ret
       THEN t = tokens[gjv.i + 2] /\ ~fault
       ELSE t \in JunkToks(js) /\ (fault => gjv.i + 1 >= num_tokens)
    /\ IF fault
       THEN /\ gjv' = [gjv EXCEPT !.pc = "crashed"]
            /\ heap' = ReadTokens(heap)
            /\ UNCHANGED log
       ELSE LET length == t.end - t.start IN
            IF length + 1 < 0 \/ ~ok
            THEN Leave(ValueAllocFailed([gjv EXCEPT !.length = length],
                                        ReadTokens(heap), log))
            ELSE /\ gjv' = [gjv EXCEPT !.pc = "copy", !.length = length,
                                       !.vstart = t.start]
                 /\ heap' = [ReadTokens(heap) EXCEPT !.value = "live"]
                 /\ UNCHANGED log
    /\ UNCHANGED <<parser, tokens, num_tokens, len, ret>>
    /\ GjvFrame

\* strncpy, value[length] = 0, free(tokens), return value.  With the length
\* -1 of a slot never written strncpy is given the size SIZE_MAX, and with a
\* start outside the text it reads outside json_data: the call faults
GjvCopy ==
    /\ gjv.pc = "copy"
    /\ IF gjv.length < 0 \/ gjv.vstart < 0 \/ gjv.vstart > strlen(js)
       THEN /\ gjv' = [gjv EXCEPT !.pc = "crashed"]
            /\ heap' = ReadTokens(heap)
            /\ UNCHANGED log
       ELSE Leave(ValueCopied(gjv, heap, log, js))
    /\ UNCHANGED <<parser, tokens, num_tokens, len, ret>>
    /\ GjvFrame

\* the loop ends at i == ret
GjvNotFound ==
    /\ gjv.pc = "scan"
    /\ gjv.i >= ret
    /\ Leave(KeyNotFound(gjv, heap, log))
    /\ UNCHANGED <<parser, tokens, num_tokens, len, ret>>
    /\ GjvFrame

NextGet ==
    \/ \E k \in GetKeys, m \in 0..MaxCap, isNull \in BOOLEAN, ok \in BOOLEAN :
         GjvEnter(k, m, isNull, ok)
    \/ GjvParse
    \/ GjvRoot
    \/ GjvScan
    \/ \E t \in JunkToks(js) \cup {tokens[j] : j \in 1..Len(tokens)},
          ok \in BOOLEAN, fault \in BOOLEAN : GjvMatch(t, ok, fault)
    \/ GjvCopy
    \/ GjvNotFound

SpecGet == InitGet /\ [][NextGet]_vars

----------------------------------------------------------------------------
(* The JSON grammar of RFC 8259, as a reference for the claims: a document's *)
(* elements in document order, each with its kind, its byte span (a string   *)
(* without its quotes) and its number of children (an object's members, an   *)
(* array's elements, 1 for a member's key).                                  *)

RefWhitespace == {32, 9, 10, 13}
RefEscapes == {34, 47, 92, 98, 102, 110, 114, 116}
RefHex == (48..57) \cup (65..70) \cup (97..102)
RefDigits == 48..57
RefFail == [ok |-> FALSE, next |-> 0, toks |-> <<>>]

At(buf, i) == IF i >= 0 /\ i < Len(buf) THEN buf[i + 1] ELSE -1

RECURSIVE RefSkipWs(_, _)
RefSkipWs(buf, i) ==
    IF At(buf, i) \in RefWhitespace THEN RefSkipWs(buf, i + 1) ELSE i

\* the offset of the quote that closes a string whose content starts at i, or -1
RECURSIVE RefStringEnd(_, _)
RefStringEnd(buf, i) ==
    LET c == At(buf, i) IN
    IF c = 34 THEN i
    ELSE IF c = 92
    THEN IF At(buf, i + 1) \in RefEscapes THEN RefStringEnd(buf, i + 2)
         ELSE IF At(buf, i + 1) = 117 /\ \A k \in 2..5 : At(buf, i + k) \in RefHex
         THEN RefStringEnd(buf, i + 6)
         ELSE -1
    ELSE IF c < 32 THEN -1
    ELSE RefStringEnd(buf, i + 1)

RECURSIVE RefDigitsEnd(_, _)
RefDigitsEnd(buf, i) ==
    IF At(buf, i) \in RefDigits THEN RefDigitsEnd(buf, i + 1) ELSE i

\* the offset just past a number that starts at i, or -1
RefNumberEnd(buf, i) ==
    LET a == IF At(buf, i) = 45 THEN i + 1 ELSE i
        b == IF At(buf, a) = 48 THEN a + 1
             ELSE IF At(buf, a) \in RefDigits THEN RefDigitsEnd(buf, a)
             ELSE -1
        c == IF b = -1 THEN -1
             ELSE IF At(buf, b) = 46
             THEN IF At(buf, b + 1) \in RefDigits THEN RefDigitsEnd(buf, b + 1) ELSE -1
             ELSE b
        d == IF c = -1 THEN -1
             ELSE IF At(buf, c) \in {69, 101}
             THEN LET e == IF At(buf, c + 1) \in {43, 45} THEN c + 2 ELSE c + 1 IN
                  IF At(buf, e) \in RefDigits THEN RefDigitsEnd(buf, e) ELSE -1
             ELSE c
    IN d

RefLiterals == {<<116, 114, 117, 101>>, <<102, 97, 108, 115, 101>>, <<110, 117, 108, 108>>}

\* the offset just past a literal true, false or null that starts at i, or -1
RefLiteralEnd(buf, i) ==
    IF \E w \in RefLiterals : \A k \in 1..Len(w) : At(buf, i + k - 1) = w[k]
    THEN i + Len(CHOOSE w \in RefLiterals : \A k \in 1..Len(w) : At(buf, i + k - 1) = w[k])
    ELSE -1

RefTok(type, start, end, size) ==
    [type |-> type, start |-> start, end |-> end, size |-> size]

RECURSIVE RefValue(_, _), RefMembers(_, _, _, _, _), RefElements(_, _, _, _, _)

\* the value that starts at i
RefValue(buf, i) ==
    LET c == At(buf, i) IN
    IF c = 123
    THEN LET j == RefSkipWs(buf, i + 1) IN
         IF At(buf, j) = 125
         THEN [ok |-> TRUE, next |-> j + 1, toks |-> <<RefTok(JSMN_OBJECT, i, j + 1, 0)>>]
         ELSE RefMembers(buf, i, j, <<>>, 0)
    ELSE IF c = 91
    THEN LET j == RefSkipWs(buf, i + 1) IN
         IF At(buf, j) = 93
         THEN [ok |-> TRUE, next |-> j + 1, toks |-> <<RefTok(JSMN_ARRAY, i, j + 1, 0)>>]
         ELSE RefElements(buf, i, j, <<>>, 0)
    ELSE IF c = 34
    THEN LET e == RefStringEnd(buf, i + 1) IN
         IF e = -1 THEN RefFail
         ELSE [ok |-> TRUE, next |-> e + 1, toks |-> <<RefTok(JSMN_STRING, i + 1, e, 0)>>]
    ELSE LET e == IF c \in {116, 102, 110} THEN RefLiteralEnd(buf, i)
                  ELSE RefNumberEnd(buf, i) IN
         IF e = -1 THEN RefFail
         ELSE [ok |-> TRUE, next |-> e, toks |-> <<RefTok(JSMN_PRIMITIVE, i, e, 0)>>]

\* the members of the object opened at open, from the key at j; acc holds the
\* tokens of the n members before it
RefMembers(buf, open, j, acc, n) ==
    IF At(buf, j) # 34 THEN RefFail
    ELSE LET e == RefStringEnd(buf, j + 1) IN
    IF e = -1 THEN RefFail
    ELSE LET k == RefSkipWs(buf, e + 1) IN
    IF At(buf, k) # 58 THEN RefFail
    ELSE LET v == RefValue(buf, RefSkipWs(buf, k + 1)) IN
    IF ~v.ok THEN RefFail
    ELSE LET m == RefSkipWs(buf, v.next)
             all == acc \o <<RefTok(JSMN_STRING, j + 1, e, 1)>> \o v.toks
         IN  IF At(buf, m) = 44
             THEN RefMembers(buf, open, RefSkipWs(buf, m + 1), all, n + 1)
             ELSE IF At(buf, m) = 125
             THEN [ok |-> TRUE, next |-> m + 1,
                   toks |-> <<RefTok(JSMN_OBJECT, open, m + 1, n + 1)>> \o all]
             ELSE RefFail

\* the elements of the array opened at open, from the element at j
RefElements(buf, open, j, acc, n) ==
    LET v == RefValue(buf, j) IN
    IF ~v.ok THEN RefFail
    ELSE LET m == RefSkipWs(buf, v.next)
             all == acc \o v.toks
         IN  IF At(buf, m) = 44
             THEN RefElements(buf, open, RefSkipWs(buf, m + 1), all, n + 1)
             ELSE IF At(buf, m) = 93
             THEN [ok |-> TRUE, next |-> m + 1,
                   toks |-> <<RefTok(JSMN_ARRAY, open, m + 1, n + 1)>> \o all]
             ELSE RefFail

\* a JSON text: ws value ws
RefDocument(buf) ==
    LET v == RefValue(buf, RefSkipWs(buf, 0)) IN
    IF v.ok /\ RefSkipWs(buf, v.next) = Len(buf) THEN v ELSE RefFail

WellFormed(buf) == RefDocument(buf).ok
RefTokens(buf) == RefDocument(buf).toks

----------------------------------------------------------------------------
(* What the claims speak of *)

\* a call has returned
Returned == pc = "idle" /\ calls # <<>>
\* the call that returned was the first on a freshly initialised parser, over
\* the whole buffer
FirstCall == Returned /\ Len(calls) = 1 /\ len = Len(js)
\* a parse of the first n bytes of buf from a freshly initialised state
Fresh(buf, n, num, isDry, s, junk) ==
    jsmn_parse(jsmn_init, <<>>, buf, n, num, isDry, s, junk)
\* the pool sizes a claim quantifies over
Caps == 0..(MaxCap + 1)

----------------------------------------------------------------------------
\* C1 (as stated): for every well-formed JSON document parsed from a fresh
\* state with a non-null pool of at least as many slots as the document has
\* elements, the return value is the number of elements and the i-th token
\* spans the i-th element in document order.
C1_AsStated ==
    (FirstCall /\ ~dry /\ WellFormed(js) /\ num_tokens >= Len(RefTokens(js)))
    => /\ ret = Len(RefTokens(js))
       /\ Len(tokens) = ret
       /\ \A i \in 1..Len(tokens) :
            /\ tokens[i].start = RefTokens(js)[i].start
            /\ tokens[i].end = RefTokens(js)[i].end

\* in a JSMN_STRICT build a primitive must be followed by a delimiter: a
\* document that ends with the last byte of a bare primitive is not accepted
EndsInPrimitive(buf) ==
    /\ RefTokens(buf) # <<>>
    /\ RefTokens(buf)[Len(RefTokens(buf))].type = JSMN_PRIMITIVE
    /\ RefTokens(buf)[Len(RefTokens(buf))].end = Len(buf)

\* C1 (amended): the same, for a build without JSMN_STRICT, and for a
\* JSMN_STRICT build when the document does not end with the last byte of a
\* bare primitive (a top-level scalar with nothing after it).
C1_TokensMatchDocument ==
    (FirstCall /\ ~dry /\ WellFormed(js) /\ num_tokens >= Len(RefTokens(js))
        /\ (strict => ~EndsInPrimitive(js)))
    => /\ ret = Len(RefTokens(js))
       /\ Len(tokens) = ret
       /\ \A i \in 1..Len(tokens) :
            /\ tokens[i].start = RefTokens(js)[i].start
            /\ tokens[i].end = RefTokens(js)[i].end

C1_Witness ==
    /\ FirstCall /\ ~dry /\ js = DocMixed /\ ret = 6
    /\ tokens[5].start = 16 /\ tokens[5].end = 20

----------------------------------------------------------------------------
\* C2 (as stated): for every input, a dry run (tokens == NULL) from a fresh
\* state returns the same value as a parse from a fresh state with a non-null
\* pool of at least that many slots.
C2_AsStated ==
    (FirstCall /\ dry)
    => \A cap \in Caps : \A junk \in JunkTypes :
         cap >= ret => Fresh(js, len, cap, FALSE, strict, junk).ret = ret

\* C2 (amended): for every input whose parse from a fresh state with a
\* non-null pool returns a count N >= 0, a dry run from a fresh state returns N.
C2_DryRunCountsSuccessfulParse ==
    (FirstCall /\ ~dry /\ ret >= 0)
    => \A cap \in Caps : Fresh(js, len, cap, TRUE, strict, JSMN_UNDEFINED).ret = ret

C2_Witness == FirstCall /\ ~dry /\ ret = 8 /\ js = DocNested

----------------------------------------------------------------------------
\* C3: when a parse from a fresh state with a non-null pool succeeds with
\* count N, a parse of the same input from a fresh state with a non-null pool
\* of any capacity k < N returns JSMN_ERROR_NOMEM.
C3_SmallPoolIsNoMem ==
    (FirstCall /\ ~dry /\ ret >= 0)
    => \A k \in 0..(ret - 1) : \A junk \in JunkTypes :
         Fresh(js, len, k, FALSE, strict, junk).ret = JSMN_ERROR_NOMEM

C3_Witness == FirstCall /\ ~dry /\ ret = 7 /\ js = DocPairs

----------------------------------------------------------------------------
\* C4: after a successful parse of a well-formed document with a sufficient
\* pool, every object token's size is the number of its members and every
\* array token's size is the number of its elements; for
\* {"a":[1,2,{"b":true}]} the outer object has 1, the array 3, the inner
\* object 1.
C4_ChildCounts ==
    (FirstCall /\ ~dry /\ ret >= 0 /\ WellFormed(js))
    => /\ Len(tokens) = Len(RefTokens(js))
       /\ \A i \in 1..Len(tokens) :
            RefTokens(js)[i].type \in {JSMN_OBJECT, JSMN_ARRAY}
            => /\ tokens[i].type = RefTokens(js)[i].type
               /\ tokens[i].size = RefTokens(js)[i].size
       /\ js = DocNested
            => /\ tokens[1].type = JSMN_OBJECT /\ tokens[1].size = 1
               /\ tokens[3].type = JSMN_ARRAY /\ tokens[3].size = 3
               /\ tokens[6].type = JSMN_OBJECT /\ tokens[6].size = 1

C4_Witness ==
    /\ FirstCall /\ ~dry /\ ret = 8 /\ js = DocNested /\ tokens[3].size = 3

----------------------------------------------------------------------------
\* every call but the last returned r, and each next call was made in the
\* same mode (null or non-null pool) with the same len or a longer buffer
SameKind(i) == calls[i].dry = calls[i + 1].dry
ResumedAfter(r) ==
    /\ Returned /\ Len(calls) >= 2 /\ len = Len(js)
    /\ \A i \in 1..(Len(calls) - 1) :
         calls[i].ret = r /\ SameKind(i) /\ calls[i].len <= calls[i + 1].len

\* the state and the return value are those of one parse of the buffer from a
\* freshly initialised state with the last call's pool
SameAsFresh ==
    \E junk \in JunkTypes :
        LET f == Fresh(js, len, num_tokens, dry, strict, junk) IN
        f.ret = ret /\ f.toks = tokens /\ f.p = parser

\* C5: when jsmn_parse returns JSMN_ERROR_NOMEM with a non-null pool, a call
\* with the same parser state, the same input and a larger pool that keeps the
\* written tokens ends with the return value and the token array of a single
\* parse from a fresh state with the larger pool; the count includes the
\* tokens of the earlier call.
C5_ResumeAfterNoMem ==
    (/\ ResumedAfter(JSMN_ERROR_NOMEM) /\ ~dry
     /\ \A i \in 1..(Len(calls) - 1) :
          calls[i].len = calls[i + 1].len /\ calls[i].num_tokens < calls[i + 1].num_tokens)
    => SameAsFresh /\ (ret >= 0 => ret = Len(tokens))

C5_Witness ==
    /\ ResumedAfter(JSMN_ERROR_NOMEM) /\ ~dry /\ js = DocNested
    /\ calls[1].num_tokens = 3 /\ ret = 8

----------------------------------------------------------------------------
\* C6 (as stated): when jsmn_parse over a buffer P returns JSMN_ERROR_PART, a
\* call with the same parser state and pool over any extension P+S ends with
\* the return value and the token array of a single parse of P+S from a fresh
\* state.
SamePool == \A i \in 1..(Len(calls) - 1) : calls[i].num_tokens = calls[i + 1].num_tokens

C6_AsStated ==
    (ResumedAfter(JSMN_ERROR_PART) /\ SamePool) => SameAsFresh

\* a call stopped at the end of its buffer right after a primitive: without
\* JSMN_STRICT the end of the buffer ends a primitive, and the token is emitted
PrimitiveCutAt(n) ==
    \E k \in 1..Len(tokens) : tokens[k].type = JSMN_PRIMITIVE /\ tokens[k].end = n

\* C6 (amended): the same, for calls with a non-null pool, in a JSMN_STRICT
\* build; and in a build without JSMN_STRICT when no earlier call emitted a
\* primitive that ends at the end of its buffer.  (A dry run keeps no count
\* from one call to the next, and without JSMN_STRICT a primitive cut by the
\* end of the buffer is emitted as it stands.)
C6_ResumeAfterPart ==
    (/\ ResumedAfter(JSMN_ERROR_PART) /\ SamePool /\ ~dry
     /\ strict \/ \A i \in 1..(Len(calls) - 1) : ~PrimitiveCutAt(calls[i].len))
    => SameAsFresh

C6_Witness ==
    /\ ResumedAfter(JSMN_ERROR_PART) /\ SamePool /\ ~dry
    /\ js = PartB1 \o PartB2 /\ calls[1].len = Len(PartB1) /\ ret = 2

----------------------------------------------------------------------------
\* the nearest unterminated emitted token: the highest index i with
\* start != -1 and end == -1 (0 when there is none)
NearestUnterminated(toks) ==
    LET open == {i \in 1..Len(toks) : toks[i].start # -1 /\ toks[i].end = -1} IN
    IF open = {} THEN 0 ELSE CHOOSE i \in open : \A j \in open : j <= i

\* C7: with a non-null pool a closing bracket is accepted only when the
\* nearest unterminated emitted token exists and has the matching kind, and
\* then its end is set to cursor + 1; if there is none or its kind differs,
\* jsmn_parse returns JSMN_ERROR_INVAL.
C7_CloserMatching ==
    [][(AtByte /\ Cur \in Closers /\ ~dry)
       => LET k == NearestUnterminated(tokens)
              kind == IF Cur = 125 THEN JSMN_OBJECT ELSE JSMN_ARRAY
          IN  IF k # 0 /\ tokens[k].type = kind
              THEN pc' = "loop" /\ tokens' = [tokens EXCEPT ![k].end = parser.pos + 1]
              ELSE pc' = "idle" /\ ret' = JSMN_ERROR_INVAL /\ tokens' = tokens]_vars

C7_Witness ==
    /\ ~dry /\ Returned /\ js = <<91, 123, 125>> /\ Len(tokens) = 2
    /\ tokens[2].end = 3 /\ tokens[1].end = -1 /\ parser.toksuper = 0

----------------------------------------------------------------------------
\* C8: whenever jsmn_parse with a non-null pool returns a count, every emitted
\* token has start != -1 and end != -1; and whenever the buffer is exhausted
\* while an emitted token still has end == -1, jsmn_parse returns
\* JSMN_ERROR_PART.
C8_NoOpenTokenOnSuccess ==
    /\ (Returned /\ ~dry /\ ret >= 0)
       => /\ Len(tokens) = parser.toknext
          /\ \A i \in 1..parser.toknext : tokens[i].start # -1 /\ tokens[i].end # -1
    /\ (Returned /\ ~dry /\ ~InBuf(js, len, parser.pos)
          /\ \E i \in 1..parser.toknext : tokens[i].end = -1)
       => ret = JSMN_ERROR_PART

C8_Witness ==
    /\ Returned /\ ~dry /\ js = <<123>> /\ len = 1 /\ parser.pos = 1
    /\ tokens[1].end = -1 /\ ret = JSMN_ERROR_PART

----------------------------------------------------------------------------
\* C9 (as stated): the input of 11 bytes made of a quote, the escape
\* backslash-u 0041, the escape backslash-n, a backslash and a quote is
\* accepted; "\q" fails with JSMN_ERROR_INVAL; "abc fails with
\* JSMN_ERROR_PART.
C9_AsStated ==
    FirstCall
    => /\ (js = DocEscapes /\ (dry \/ num_tokens >= 1)) => ret >= 0
       /\ js = DocBadEscape => ret = JSMN_ERROR_INVAL
       /\ js = DocUnclosed => ret = JSMN_ERROR_PART

\* C9 (amended): the input of 10 bytes made of a quote, the escape
\* backslash-u 0041, the escape backslash-n and a quote is accepted as one
\* string token [1,9); with a backslash before the last quote the quote is
\* escaped, the string is unterminated and the parse fails with
\* JSMN_ERROR_PART; "\q" fails with JSMN_ERROR_INVAL; "abc fails with
\* JSMN_ERROR_PART.
C9_Escapes ==
    FirstCall
    => /\ (js = DocEscapesClosed /\ (dry \/ num_tokens >= 1))
          => /\ ret = 1
             /\ ~dry => tokens = <<[type |-> JSMN_STRING, start |-> 1, end |-> 9, size |-> 0]>>
       /\ js = DocEscapes => ret = JSMN_ERROR_PART /\ parser.pos = 0
       /\ js = DocBadEscape => ret = JSMN_ERROR_INVAL
       /\ js = DocUnclosed => ret = JSMN_ERROR_PART

C9_Witness == FirstCall /\ ~dry /\ js = DocEscapesClosed /\ ret = 1

----------------------------------------------------------------------------
\* C10: with JSMN_STRICT, parsing {foo:1} (non-null pool with room for the
\* object token) returns JSMN_ERROR_INVAL; without JSMN_STRICT the same input
\* (pool of at least 3) succeeds, foo is a PRIMITIVE token that acts as the
\* key: its size becomes 1 and the object's size is 1.
C10_BareKey ==
    (FirstCall /\ ~dry /\ js = DocBareKey)
    => IF strict
       THEN num_tokens >= 1 => ret = JSMN_ERROR_INVAL
       ELSE num_tokens >= 3
            => /\ ret = 3
               /\ tokens[2] = [type |-> JSMN_PRIMITIVE, start |-> 1, end |-> 4, size |-> 1]
               /\ tokens[1].type = JSMN_OBJECT /\ tokens[1].size = 1

C10_Witness == FirstCall /\ ~dry /\ js = DocBareKey /\ ~strict /\ ret = 3

----------------------------------------------------------------------------
\* the primitive scanner is entered at the cursor: the byte reaches the
\* primitive case and the JSMN_STRICT key check lets it through
EntersPrimitive ==
    /\ AtByte /\ Cur \notin Structural /\ IsPrimitiveStart(Cur, strict)
    /\ ~(strict /\ StrictKeyCheckFails(parser, tokens, dry))

\* every byte from pos to the end of the buffer is printable and no delimiter
RunsToEnd(buf, n, s, pos) ==
    \A k \in pos..(n - 1) :
        buf[k + 1] >= 32 /\ buf[k + 1] <= 126 /\ buf[k + 1] \notin PrimitiveDelimiters(s)

\* C11: a primitive that runs to the end of the buffer without meeting a
\* delimiter fails with JSMN_ERROR_PART under JSMN_STRICT; without JSMN_STRICT
\* (non-null pool with a free slot) it is emitted as one PRIMITIVE token that
\* ends at the buffer length; the input 42 without JSMN_STRICT yields count 1
\* and one PRIMITIVE token [0,2).
C11_PrimitiveAtEndOfBuffer ==
    [][/\ (EntersPrimitive /\ RunsToEnd(js, len, strict, parser.pos))
          => IF strict
             THEN pc' = "idle" /\ ret' = JSMN_ERROR_PART /\ Len(tokens') = Len(tokens)
             ELSE (~dry /\ parser.toknext < num_tokens)
                  => /\ pc' = "loop"
                     /\ Len(tokens') = Len(tokens) + 1
                     /\ tokens'[Len(tokens')] =
                          [type |-> JSMN_PRIMITIVE, start |-> parser.pos,
                           end |-> len, size |-> 0]
       /\ (pc = "loop" /\ pc' = "idle" /\ js = Doc42 /\ calls = <<>>
              /\ ~strict /\ ~dry /\ num_tokens >= 1)
          => /\ ret' = 1
             /\ tokens' = <<[type |-> JSMN_PRIMITIVE, start |-> 0, end |-> 2, size |-> 0]>>
      ]_vars

C11_Witness ==
    /\ FirstCall /\ ~dry /\ ~strict /\ js = Doc42 /\ ret = 1
    /\ tokens = <<[type |-> JSMN_PRIMITIVE, start |-> 0, end |-> 2, size |-> 0]>>

----------------------------------------------------------------------------
\* get_json_value has returned
GjvDone == gjv.pc = "done"
\* the bytes token j (counted as in the code, from 0) spans
SpanOf(j) == SubSeq(js, tokens[j + 1].start + 1, tokens[j + 1].end)
\* token j is a string whose span is the key: same length, same bytes
IsKeyToken(j) == tokens[j + 1].type = JSMN_STRING /\ SpanOf(j) = gjv.key
\* token j lies inside a container other than the root
Enclosed(j) ==
    \E c \in 1..(Len(tokens) - 1) :
        /\ c # j
        /\ tokens[c + 1].type \in {JSMN_OBJECT, JSMN_ARRAY}
        /\ tokens[c + 1].start < tokens[j + 1].start
        /\ tokens[j + 1].end <= tokens[c + 1].end
\* the call left the loop on a match at token gjv.i
Matched == GjvDone /\ gjv.line \in {596, 602}
\* the call ran the loop to its end
RanOut == GjvDone /\ gjv.line = 614 /\ heap.tokens # "none"

\* C12 (as stated): get_json_value matches only top-level string tokens whose
\* span equals the key; on the first such match it returns a fresh copy of
\* the bytes of the token that follows; string tokens nested inside inner
\* containers are not matched.
C12_AsStated ==
    /\ Matched
       => /\ IsKeyToken(gjv.i)
          /\ ~Enclosed(gjv.i)
          /\ \A j \in 1..(gjv.i - 1) : ~(IsKeyToken(j) /\ ~Enclosed(j))
          /\ (gjv.line = 602 /\ gjv.i + 1 < ret)
             => ~gjv.null /\ heap.value = "live" /\ gjv.value = SpanOf(gjv.i + 1)
    /\ RanOut => \A j \in 1..(ret - 1) : ~(IsKeyToken(j) /\ ~Enclosed(j))

\* what the code does instead: every string token from index 1 on is
\* compared, at any depth
C12_AnyDepth ==
    /\ Matched
       => /\ IsKeyToken(gjv.i)
          /\ \A j \in 1..(gjv.i - 1) : ~IsKeyToken(j)
          /\ (gjv.line = 602 /\ gjv.i + 1 < ret)
             => ~gjv.null /\ heap.value = "live" /\ gjv.value = SpanOf(gjv.i + 1)
    /\ RanOut => \A j \in 1..(ret - 1) : ~IsKeyToken(j)

----------------------------------------------------------------------------
\* the value returned when the key is not found
NotFoundReturn == KeyNotFound(GjvIdle, HeapEmpty, <<>>).g
\* the last message logged
LastLog == log[Len(log)]

\* C13 (as stated): allocation failure and key-not-found are distinguishable
\* outcomes: the value returned after a failed malloc differs from the value
\* returned when the key is not found.
C13_AsStated ==
    (GjvDone /\ gjv.line \in {564, 596})
    => <<gjv.null, gjv.value>> # <<NotFoundReturn.null, NotFoundReturn.value>>

\* C13 (amended): get_json_value returns NULL both on allocation failure and
\* on key-not-found; the two outcomes differ only in the message logged last
\* ("Failed to allocate memory ..." against "Failed to find the key in the
\* JSON."); a call that ran the loop to its end found no string token equal
\* to the key, and only the path that copied a value returns a block.
C13_NullAndLog ==
    GjvDone
    => /\ gjv.line \in {564, 596}
          => /\ gjv.null
             /\ LastLog \in {"Failed to allocate memory for JSON tokens.",
                             "Failed to allocate memory for value."}
       /\ gjv.line = 614
          => /\ gjv.null
             /\ LastLog = "Failed to find the key in the JSON."
             /\ heap.tokens # "none" => \A j \in 1..(ret - 1) : ~IsKeyToken(j)
       /\ ~gjv.null => gjv.line = 602

C13_Witness ==
    /\ GjvDone /\ gjv.line = 596 /\ gjv.null /\ js = GetLast /\ gjv.key = <<97>>
    /\ LastLog = "Failed to allocate memory for value."

----------------------------------------------------------------------------
\* C14: on every return path taken after the token array was allocated
\* (parse error, root not an object, value allocation failure, key found, key
\* not found) the array is released exactly once before the return, and it is
\* never read after its release.
C14_TokensFreedOnce ==
    /\ heap.frees <= 1
    /\ ~heap.misuse
    /\ ((GjvDone /\ gjv.line \in {573, 581, 596, 602}) \/ RanOut)
       => (heap.tokens = "freed" /\ heap.frees = 1)
    /\ heap.tokens = "live" => gjv.pc \in {"parse", "root", "scan", "copy", "crashed"}

C14_Witness ==
    /\ GjvDone /\ gjv.line = 602 /\ heap.frees = 1 /\ heap.tokens = "freed"
    /\ js = GetLast /\ gjv.key = <<97>> /\ gjv.value = <<98>>

----------------------------------------------------------------------------
\* the offset of the first backslash of the string whose body starts at k,
\* when only plain bytes come before it; -1 when the string ends, or the
\* buffer, before a backslash
RECURSIVE FirstEscape(_, _, _)
FirstEscape(buf, n, k) ==
    IF k >= n \/ buf[k + 1] \in {NUL, QUOTE} THEN -1
    ELSE IF buf[k + 1] = BACKSLASH THEN k
    ELSE FirstEscape(buf, n, k + 1)

\* the offset of the closing quote when only plain bytes come before it from
\* k on; -1 otherwise
RECURSIVE PlainToQuote(_, _, _)
PlainToQuote(buf, n, k) ==
    IF k >= n \/ buf[k + 1] \in {NUL, BACKSLASH} THEN -1
    ELSE IF buf[k + 1] = QUOTE THEN k
    ELSE PlainToQuote(buf, n, k + 1)

\* how many of the (at most 4) bytes from k on are in the buffer and hex digits
RECURSIVE HexRun(_, _, _, _)
HexRun(buf, n, k, i) ==
    IF i < 4 /\ k < n /\ IsHex(buf[k + 1]) THEN HexRun(buf, n, k + 1, i + 1) ELSE i

\* the string scanner is entered at the cursor and the first escape of the
\* string is a backslash followed by u
EntersStringWithU ==
    /\ AtByte /\ Cur = QUOTE
    /\ LET e == FirstEscape(js, len, parser.pos + 1) IN
       e # -1 /\ e + 1 < len /\ js[e + 2] = Ch_u
\* the offset of the first byte after that backslash-u, and the hex digits there
HexFrom == FirstEscape(js, len, parser.pos + 1) + 2
HexDigits == HexRun(js, len, HexFrom, 0)
\* the call returns r here with the cursor on the opening quote and nothing emitted
FailsRewound(r) ==
    pc' = "idle" /\ ret' = r /\ parser' = parser /\ tokens' = tokens
\* the string is scanned to its closing quote at q and the loop goes on
ScannedTo(q) ==
    /\ pc' = "loop" /\ parser'.pos = q + 1
    /\ ~dry => /\ Len(tokens') = Len(tokens) + 1
               /\ tokens'[Len(tokens')] =
                    [type |-> JSMN_STRING, start |-> parser.pos + 1, end |-> q, size |-> 0]

\* C15 (as stated): a backslash followed by u must be followed by exactly 4
\* hex digits; in every other case, including when the buffer ends after
\* fewer than 4 hex digits, the scan fails with JSMN_ERROR_INVAL and the
\* cursor is rewound to the opening quote.
C15_AsStated ==
    [][EntersStringWithU
       => IF HexDigits < 4
          THEN FailsRewound(JSMN_ERROR_INVAL)
          ELSE LET q == PlainToQuote(js, len, HexFrom + 4) IN
               (q # -1 /\ (dry \/ parser.toknext < num_tokens)) => ScannedTo(q)
      ]_vars

\* C15 (amended): after backslash-u 4 hex digits are accepted; a byte that is
\* no hex digit among the 4 makes the scan fail with JSMN_ERROR_INVAL, and the
\* end of the buffer (or a NUL byte) after fewer than 4 hex digits makes it
\* fail with JSMN_ERROR_PART; in both cases the cursor is rewound to the
\* opening quote.
C15_UnicodeEscape ==
    [][EntersStringWithU
       => IF HexDigits < 4 /\ InBuf(js, len, HexFrom + HexDigits)
          THEN FailsRewound(JSMN_ERROR_INVAL)
          ELSE IF HexDigits < 4
          THEN FailsRewound(JSMN_ERROR_PART)
          ELSE LET q == PlainToQuote(js, len, HexFrom + 4) IN
               (q # -1 /\ (dry \/ parser.toknext < num_tokens)) => ScannedTo(q)
      ]_vars

C15_Witness ==
    /\ Returned /\ js = DocBadHex /\ ret = JSMN_ERROR_INVAL /\ parser.pos = 0

----------------------------------------------------------------------------
\* the first offset from k on that is past the buffer or holds a delimiter or
\* a byte outside [32,126]
RECURSIVE PrimitiveStop(_, _, _, _)
PrimitiveStop(buf, n, s, k) ==
    IF k >= n THEN k
    ELSE IF buf[k + 1] \in PrimitiveDelimiters(s) THEN k
    ELSE IF buf[k + 1] < 32 \/ buf[k + 1] > 126 THEN k
    ELSE PrimitiveStop(buf, n, s, k + 1)

\* the primitive scanner is entered at the cursor and meets a byte outside
\* [32,126] before any delimiter
MeetsNonPrintable ==
    /\ EntersPrimitive
    /\ LET k == PrimitiveStop(js, len, strict, parser.pos) IN
       k < len /\ js[k + 1] \notin PrimitiveDelimiters(strict)
BadAt == PrimitiveStop(js, len, strict, parser.pos)

\* C16 (as stated): in the primitive scanner any byte outside [32,126] met
\* before a delimiter makes the call fail at once with JSMN_ERROR_INVAL, with
\* the cursor rewound to the start of the primitive and no token emitted.
C16_AsStated ==
    [][MeetsNonPrintable => FailsRewound(JSMN_ERROR_INVAL)]_vars

\* C16 (amended): the same for every byte outside [32,126] other than NUL; a
\* NUL byte ends the scan as the end of the buffer does: under JSMN_STRICT
\* the call fails with JSMN_ERROR_PART and the cursor rewound, otherwise the
\* primitive is emitted ending at the NUL byte.
C16_NonPrintable ==
    [][MeetsNonPrintable
       => IF js[BadAt + 1] # NUL THEN FailsRewound(JSMN_ERROR_INVAL)
          ELSE IF strict THEN FailsRewound(JSMN_ERROR_PART)
          ELSE (dry \/ parser.toknext < num_tokens)
               => /\ pc' = "loop" /\ parser'.pos = BadAt
                  /\ ~dry => /\ Len(tokens') = Len(tokens) + 1
                             /\ tokens'[Len(tokens')] =
                                  [type |-> JSMN_PRIMITIVE, start |-> parser.pos,
                                   end |-> BadAt, size |-> 0]
      ]_vars

C16_Witness ==
    /\ Returned /\ js = DocDel /\ ret = JSMN_ERROR_INVAL /\ parser.pos = 0 /\ tokens = <<>>

----------------------------------------------------------------------------
\* the driver is about to enter one of the two scanners at the cursor
ScannerEntered == AtByte /\ (Cur = QUOTE \/ EntersPrimitive)
\* what that scanner returns
ScannerReturns ==
    LET junk == CHOOSE j \in JunkTypes : TRUE IN
    IF Cur = QUOTE
    THEN jsmn_parse_string(parser, tokens, js, len, num_tokens, dry, junk).r
    ELSE jsmn_parse_primitive(parser, tokens, js, len, num_tokens, dry, strict, junk).r
ScannerErrors == {JSMN_ERROR_PART, JSMN_ERROR_INVAL, JSMN_ERROR_NOMEM}

\* C17: whenever the string scanner or the primitive scanner fails, jsmn_parse
\* returns the scanner's error unchanged, with the cursor on the first byte
\* of the token being scanned and toknext, toksuper and every token emitted
\* before as they were when the scanner was entered; a step at a scanner that
\* ends the call is such a failure.
C17_ScannerFailureFrame ==
    [][ScannerEntered
       => /\ ScannerReturns < 0
             => ScannerReturns \in ScannerErrors /\ FailsRewound(ScannerReturns)
          /\ pc' = "idle"
             => /\ ret' \in ScannerErrors /\ ret' = ScannerReturns
                /\ parser' = parser /\ tokens' = tokens
      ]_vars

C17_Witness ==
    /\ Returned /\ ret = JSMN_ERROR_NOMEM /\ parser.toknext > 0
    /\ InBuf(js, len, parser.pos) /\ js[parser.pos + 1] = Ch_1

----------------------------------------------------------------------------
\* C18: a call with tokens == NULL, whatever its input and its num_tokens,
\* never returns JSMN_ERROR_NOMEM, never writes a token and leaves toknext
\* unchanged, while the cursor advances: every step that does not return
\* moves it forward, and a call that returns a count has it at the end of
\* the input.
C18_DryRunFrame ==
    [][(dry /\ pc = "loop")
       => /\ tokens' = tokens
          /\ parser'.toknext = parser.toknext
          /\ pc' = "idle" => ret' # JSMN_ERROR_NOMEM
          /\ pc' = "loop" => parser'.pos > parser.pos
          /\ (pc' = "idle" /\ ret' >= 0) => ~InBuf(js, len, parser'.pos)
      ]_vars

C18_Witness ==
    /\ Returned /\ dry /\ num_tokens = MaxCap /\ ret = 3 /\ parser.pos = len
    /\ parser.toknext = 0 /\ tokens = <<>>

----------------------------------------------------------------------------
\* C19: with a pool (tokens != NULL), in every state of a parse started from
\* jsmn_init, calls resumed after an error included,
\* -1 <= toksuper < toknext <= num_tokens,
\* the slots written so far are those below toknext, and every slot the next
\* step reads or writes is below toknext, but for the slot jsmn_alloc_token
\* hands out, which is slot toknext and lies inside the pool.
C19_TokenIndexSafety ==
    ~dry
    => /\ -1 <= parser.toksuper
       /\ parser.toksuper < parser.toknext
       /\ parser.toknext <= num_tokens
       /\ Len(tokens) = parser.toknext
       /\ AtByte
          => /\ SlotsUsed(parser, tokens, Cur, js, len, num_tokens, strict)
                  \subseteq 0..(parser.toknext - 1)
             /\ SlotAllocated(parser, tokens, Cur, js, len, num_tokens, strict)
                  \subseteq ({parser.toknext} \cap 0..(num_tokens - 1))
       /\ (pc = "loop" /\ ~AtByte)
          => SlotsScannedAtEnd(parser, tokens) \subseteq 0..(parser.toknext - 1)

C19_Witness ==
    /\ ~dry /\ AtByte /\ Cur = COMMA /\ Len(calls) = 1 /\ parser.toknext = num_tokens
    /\ parser.toksuper > 0
    /\ Cardinality(SlotsUsed(parser, tokens, Cur, js, len, num_tokens, strict)) >= 2

----------------------------------------------------------------------------
\* the offsets read, and the cursor values taken, by the turn of the loop that
\* comes next
ReadsNext ==
    {e[2] : e \in {x \in CaseTrace(parser, tokens, js, len, num_tokens, dry, strict) :
                      x[1] = "read"}}
CursorsNext ==
    {e[2] : e \in {x \in CaseTrace(parser, tokens, js, len, num_tokens, dry, strict) :
                      x[1] = "pos"}}

\* C20: for every buffer and length, in every state of jsmn_parse and of its
\* two scanners 0 <= parser->pos <= len, and every byte read is at an offset
\* below len, the look-ahead after a backslash and the hex digits after
\* backslash-u included.
C20_BufferBoundsSafety ==
    /\ 0 <= parser.pos /\ parser.pos <= len
    /\ AtByte => /\ ReadsNext \subseteq 0..(len - 1)
                 /\ CursorsNext \subseteq 0..len

C20_Witness ==
    /\ AtByte /\ Cur = QUOTE /\ js = PartB1 /\ len = Len(js)
    /\ ReadsNext = 1..(len - 1) /\ len \in CursorsNext

====
